---- MODULE Spec2Model ----
(***************************************************************************)
(* Model of the decision-and-lifecycle core of intraday_bot.py: the two    *)
(* module-level dictionaries active_positions and trade_history, the      *)
(* report files written by save_daily_report, and the three scheduled      *)
(* jobs daily_trading, monitor_positions and save_daily_report run by the  *)
(* single-threaded schedule loop.                                          *)
(*                                                                         *)
(* The clock counts half days: an odd value is a day's 15:30, when the     *)
(* report job falls due, an even value the next midnight.                  *)
(* Prices, ATR values and PnL are integers.  The ATR inputs are even, so   *)
(* that atr*1.5 is an integer; floating-point rounding is not modelled.    *)
(* An optional value (Python None or a value) is the empty sequence or a   *)
(* one-element sequence.  A dictionary is the sequence of its items in     *)
(* insertion order.  opened is the log of the "Placed" lines and openAtr   *)
(* the ATR each open position was sized with; the program writes the       *)
(* first to trading_bot.log and does not keep the second.                  *)
(***************************************************************************)
EXTENDS Integers, Sequences, FiniteSets, TLC

(* ---------------- bounds ---------------- *)
MaxDay == 2
MaxOpens == 2

(* ---------------- program constants ---------------- *)
CAPITAL == 100000
RISK_PER_TRADE_PCT == 1

(* ---------------- input domains ---------------- *)
None == << >>
Some(v) == << v >>

Symbols == {"ABC.NS", "XYZ.NS"}
Sentiments == {"Bullish", "Bearish", "Neutral"}
PnlInputs == {-50, 0, 50}
AtrInputs == {None, Some(0), Some(4), Some(668)}
CloseInputs == {100}
PriceInputs == {None, Some(94), Some(106), Some(110)}
Days == 1 .. MaxDay

VARIABLES active_positions, trade_history, files, clock, report_due,
          pc, sentiment, stocks, last, opened, openAtr

vars == << active_positions, trade_history, files, clock, report_due,
           pc, sentiment, stocks, last, opened, openAtr >>

(* ---------------- helpers over the dictionaries ---------------- *)
RECURSIVE IndexOf(_, _, _)
IndexOf(seq, sym, i) ==
    IF i > Len(seq) THEN 0
    ELSE IF seq[i].symbol = sym THEN i
    ELSE IndexOf(seq, sym, i + 1)

HasKey(ap, sym) == IndexOf(ap, sym, 1) # 0
Get(ap, sym) == ap[IndexOf(ap, sym, 1)]
Keys(ap) == { ap[i].symbol : i \in 1 .. Len(ap) }

\* dict[key] = value: an existing key keeps its place, a new key goes last
SetItem(ap, rec) ==
    LET i == IndexOf(ap, rec.symbol, 1)
    IN  IF i = 0 THEN Append(ap, rec) ELSE [ap EXCEPT ![i] = rec]

\* mutant: dict.get in place of dict.pop, the key stays
Pop_Keep(ap, sym) == ap

\* dict.pop(key, None): the dictionary without the key
Pop(ap, sym) ==
    LET i == IndexOf(ap, sym, 1)
    IN  IF i = 0 THEN ap
        ELSE SubSeq(ap, 1, i - 1) \o SubSeq(ap, i + 1, Len(ap))

Today == (clock \div 2) + 1

(* ---------------- ATR & trading ---------------- *)
AtrTimes1_5(atr) == (3 * atr) \div 2

RiskBudget == (CAPITAL * RISK_PER_TRADE_PCT) \div 100

Qty(atr) == RiskBudget \div AtrTimes1_5(atr)

\* mutant: the qty < 1 return is missing
PlaceAccepts_NoQtyCheck(signal, sent, atr) ==
    /\ atr # None
    /\ atr[1] # 0
    /\ ~ \/ (sent = "Bearish" /\ signal = "BUY")
         \/ (sent = "Bullish" /\ signal = "SELL")

\* the three early returns of place_trade
PlaceAccepts(signal, sent, atr) ==
    /\ atr # None
    /\ atr[1] # 0
    /\ Qty(atr[1]) >= 1
    /\ ~ \/ (sent = "Bearish" /\ signal = "BUY")
         \/ (sent = "Bullish" /\ signal = "SELL")

\* mutant: the stop is placed on the winning side of the entry
NewPosition_WrongSide(symbol, signal, atr, close) ==
    [ symbol |-> symbol, signal |-> signal, qty |-> Qty(atr),
      entry_price |-> close,
      stop_loss |-> IF signal = "BUY" THEN close + AtrTimes1_5(atr)
                    ELSE close - AtrTimes1_5(atr) ]

NewPosition(symbol, signal, atr, close) ==
    [ symbol |-> symbol, signal |-> signal, qty |-> Qty(atr),
      entry_price |-> close,
      stop_loss |-> IF signal = "BUY" THEN close - AtrTimes1_5(atr)
                    ELSE close + AtrTimes1_5(atr) ]

place_trade(ap, symbol, signal, sent, atr, close) ==
    IF PlaceAccepts(signal, sent, atr)
    THEN SetItem(ap, NewPosition(symbol, signal, atr[1], close))
    ELSE ap

\* mutant: the SELL branch is missing
Pnl_LongOnly(pos, price) == pos.qty * (price - pos.entry_price)

Pnl(pos, price) ==
    IF pos.signal = "BUY" THEN pos.qty * (price - pos.entry_price)
    ELSE pos.qty * (pos.entry_price - price)

\* the trade's exit_time, a wall-clock string, is left out
ClosedTrade(pos, price) ==
    [ symbol |-> pos.symbol, signal |-> pos.signal, qty |-> pos.qty,
      entry_price |-> pos.entry_price, exit_price |-> price,
      pnl |-> Pnl(pos, price) ]

RECURSIVE BucketIndex(_, _, _)
BucketIndex(th, day, i) ==
    IF i > Len(th) THEN 0
    ELSE IF th[i].date = day THEN i
    ELSE BucketIndex(th, day, i + 1)

\* trade_history.setdefault(day, []).append(trade)
AppendTrade(th, day, trade) ==
    LET i == BucketIndex(th, day, 1)
    IN  IF i = 0 THEN Append(th, [date |-> day, trades |-> << trade >>])
        ELSE [th EXCEPT ![i].trades = Append(@, trade)]

\* exit_trade on the pair (active_positions, trade_history)
exit_trade(st, symbol, price, now) ==
    IF HasKey(st.ap, symbol)
    THEN [ ap |-> Pop(st.ap, symbol),
           th |-> AppendTrade(st.th, (now \div 2) + 1,
                              ClosedTrade(Get(st.ap, symbol), price)) ]
    ELSE st

\* mutant: strict comparisons
StopBreached_Strict(pos, price) ==
    \/ pos.signal = "BUY" /\ price < pos.stop_loss
    \/ pos.signal = "SELL" /\ price > pos.stop_loss

StopBreached(pos, price) ==
    \/ pos.signal = "BUY" /\ price <= pos.stop_loss
    \/ pos.signal = "SELL" /\ price >= pos.stop_loss

\* mutant: return in place of continue when the price is missing
RECURSIVE MonitorLoop_Abort(_, _, _, _)
MonitorLoop_Abort(st, items, prices, now) ==
    IF items = << >> THEN st
    ELSE LET pos == Head(items)
             price == prices[pos.symbol]
         IN  IF price = None THEN st
             ELSE MonitorLoop_Abort(
                      IF StopBreached(pos, price[1])
                      THEN exit_trade(st, pos.symbol, price[1], now)
                      ELSE st,
                      Tail(items), prices, now)

\* the loop of monitor_positions over list(active_positions.items())
RECURSIVE MonitorLoop(_, _, _, _)
MonitorLoop(st, items, prices, now) ==
    IF items = << >> THEN st
    ELSE LET pos == Head(items)
             price == prices[pos.symbol]
             st2 == IF price = None THEN st
                    ELSE IF StopBreached(pos, price[1])
                         THEN exit_trade(st, pos.symbol, price[1], now)
                         ELSE st
         IN  MonitorLoop(st2, Tail(items), prices, now)

(* ---------------- daily report ---------------- *)
RECURSIVE AllTrades(_)
AllTrades(th) ==
    IF th = << >> THEN << >>
    ELSE Head(th).trades \o AllTrades(Tail(th))

NoFile == [exists |-> FALSE, rows |-> << >>]

\* mutant: the file is opened in append mode
WriteFile_Append(fs, day, rows) ==
    [fs EXCEPT ![day] = [exists |-> TRUE, rows |-> @.rows \o rows]]

\* open(filename, 'w') and writerows(all_trades)
WriteFile(fs, day, rows) == [fs EXCEPT ![day] = [exists |-> TRUE, rows |-> rows]]

SaveDailyReport(fs, th, day) ==
    IF th = << >> THEN fs
    ELSE IF AllTrades(th) = << >> THEN fs
    ELSE WriteFile(fs, day, AllTrades(th))

(* ---------------- signal gate of daily_trading ---------------- *)
(* ---------------- signal gate of daily_trading ---------------- *)
\* mutant: pnl >= 0 in place of pnl > 0
Signal_ZeroIsLong(pnl, sent) ==
    IF pnl >= 0 /\ sent = "Bullish" THEN "BUY"
    ELSE IF pnl < 0 /\ sent = "Bearish" THEN "SELL"
    ELSE "None"

Signal(pnl, sent) ==
    IF pnl > 0 /\ sent = "Bullish" THEN "BUY"
    ELSE IF pnl < 0 /\ sent = "Bearish" THEN "SELL"
    ELSE "None"

(* ---------------- state machine ---------------- *)
NoLast == [ op |-> "init", sym |-> "", sentiment |-> "", pnl |-> None,
            atr |-> None, close |-> None, prices |-> << >> ]

Init ==
    /\ active_positions = << >>
    /\ trade_history = << >>
    /\ files = [d \in Days |-> NoFile]
    /\ clock = 0
    /\ report_due = FALSE
    /\ pc = "idle"
    /\ sentiment = ""
    /\ stocks = << >>
    /\ last = NoLast
    /\ opened = << >>
    /\ openAtr = [s \in Symbols |-> 0]

StockLists ==
    { << s >> : s \in Symbols } \cup
    { q \in { << s, t >> : s \in Symbols, t \in Symbols } : q[1] # q[2] }

\* daily_trading up to the loop: fetch_and_analyze_sentiment()
BeginTrading ==
    /\ pc = "idle"
    /\ \E sent \in Sentiments, uniq \in StockLists :
         /\ Len(opened) + Len(uniq) <= MaxOpens
         /\ sentiment' = sent
         /\ stocks' = uniq
         /\ last' = [NoLast EXCEPT !.op = "sentiment", !.sentiment = sent]
    /\ pc' = "trading"
    /\ UNCHANGED << active_positions, trade_history, files, clock,
                    report_due, opened, openAtr >>

\* what one iteration of the loop of daily_trading reads: the backtest's pnl,
\* then (only inside place_trade) the ATR, then (only past the early returns)
\* the last close; a value the code does not read is None
EvalInputs(sent) ==
    { [pnl |-> None, atr |-> None, close |-> None] } \cup
    { [pnl |-> Some(p), atr |-> None, close |-> None] :
        p \in { q \in PnlInputs : Signal(q, sent) = "None" } } \cup
    UNION { { [pnl |-> Some(p), atr |-> a, close |-> None] :
                a \in { x \in AtrInputs :
                          ~ PlaceAccepts(Signal(p, sent), sent, x) } } \cup
            { [pnl |-> Some(p), atr |-> a, close |-> Some(c)] :
                a \in { x \in AtrInputs :
                          PlaceAccepts(Signal(p, sent), sent, x) },
                c \in CloseInputs } :
            p \in { q \in PnlInputs : Signal(q, sent) # "None" } }

\* one iteration of the loop of daily_trading
EvalStock ==
    /\ pc = "trading"
    /\ \E in \in EvalInputs(sentiment) :
         LET sym == Head(stocks)
             sig == IF in.pnl = None THEN "None"
                    ELSE Signal(in.pnl[1], sentiment)
             placed == sig # "None" /\ PlaceAccepts(sig, sentiment, in.atr)
             close == IF in.close = None THEN 0 ELSE in.close[1]
         IN  /\ active_positions' =
                  IF sig = "None" THEN active_positions
                  ELSE place_trade(active_positions, sym, sig, sentiment,
                                   in.atr, close)
             /\ opened' = IF placed
                           THEN Append(opened, NewPosition(sym, sig, in.atr[1],
                                                           close))
                           ELSE opened
             /\ openAtr' = IF placed THEN [openAtr EXCEPT ![sym] = in.atr[1]]
                           ELSE openAtr
             /\ last' = [NoLast EXCEPT !.op = "eval", !.sym = sym,
                                       !.sentiment = sentiment, !.pnl = in.pnl,
                                       !.atr = in.atr, !.close = in.close]
    /\ stocks' = Tail(stocks)
    /\ pc' = IF Tail(stocks) = << >> THEN "idle" ELSE "trading"
    \* sentiment is a local of daily_trading: gone when the loop ends
    /\ sentiment' = IF Tail(stocks) = << >> THEN "" ELSE sentiment
    /\ UNCHANGED << trade_history, files, clock, report_due >>

monitor_positions ==
    /\ pc = "idle"
    /\ \E prices \in [Keys(active_positions) -> PriceInputs] :
         LET st == MonitorLoop([ap |-> active_positions, th |-> trade_history],
                               active_positions, prices, clock)
         IN  /\ active_positions' = st.ap
             /\ trade_history' = st.th
             /\ openAtr' = [s \in Symbols |->
                             IF HasKey(st.ap, s) THEN openAtr[s] ELSE 0]
             /\ last' = [NoLast EXCEPT !.op = "monitor", !.prices = prices]
    /\ UNCHANGED << files, clock, report_due, pc, sentiment, stocks, opened >>

save_daily_report ==
    /\ pc = "idle"
    /\ report_due
    /\ files' = SaveDailyReport(files, trade_history, Today)
    /\ report_due' = FALSE
    /\ last' = [NoLast EXCEPT !.op = "report"]
    /\ UNCHANGED << active_positions, trade_history, clock, pc, sentiment,
                    stocks, opened, openAtr >>

\* the wall clock passes 15:30 (odd clock) or midnight (even clock)
Tick ==
    /\ pc = "idle"
    /\ ~ report_due
    /\ clock < 2 * MaxDay - 1
    /\ clock' = clock + 1
    /\ report_due' = (clock' % 2 = 1)
    /\ last' = [NoLast EXCEPT !.op = "tick"]
    /\ UNCHANGED << active_positions, trade_history, files, pc, sentiment,
                    stocks, opened, openAtr >>

Next ==
    \/ BeginTrading
    \/ EvalStock
    \/ monitor_positions
    \/ save_daily_report
    \/ Tick

Spec == Init /\ [][Next]_vars

(* ---------------- properties ---------------- *)
\* the trades a step appended to the history
NewTrades(th, th2) ==
    SubSeq(AllTrades(th2), Len(AllTrades(th)) + 1, Len(AllTrades(th2)))

CountFor(trades, sym) ==
    Cardinality({ i \in 1 .. Len(trades) : trades[i].symbol = sym })

PolledPrices == { p[1] : p \in PriceInputs \ {None} }

\* the trades of one day's bucket
TodaysTrades(th, day) ==
    IF BucketIndex(th, day, 1) = 0 THEN << >>
    ELSE th[BucketIndex(th, day, 1)].trades

\* C1: an instrument's open position keeps its direction, quantity,
\* entryPrice and stopLoss for as long as it stays open; place_trade for an
\* instrument that is already open changes nothing.
C1_OpenPositionKept ==
    [][ \A s \in Symbols :
          (HasKey(active_positions, s) /\ HasKey(active_positions', s))
            => Get(active_positions', s) = Get(active_positions, s) ]_vars

\* C2: the report written by the end-of-day task holds exactly the trades
\* closed on the day of the report, none closed on an earlier day.
C2_ReportHoldsOnlyTodaysTrades ==
    [][ (last'.op = "report" /\ files'[Today'].exists)
          => files'[Today'].rows = TodaysTrades(trade_history', Today') ]_vars

\* C3: in a monitoring cycle a position whose price is available is closed
\* (removed, one ClosedTrade appended) iff it is BUY and price <= stop_loss
\* or SELL and price >= stop_loss; otherwise it stays open unchanged and no
\* ClosedTrade is appended for it.
C3_CloseIffStopBreached ==
    [][ last'.op = "monitor" =>
          \A s \in Keys(active_positions) :
            LET pos == Get(active_positions, s)
                p == last'.prices[s]
                new == NewTrades(trade_history, trade_history')
            IN  p # None =>
                  IF \/ (pos.signal = "BUY" /\ p[1] <= pos.stop_loss)
                     \/ (pos.signal = "SELL" /\ p[1] >= pos.stop_loss)
                  THEN /\ ~ HasKey(active_positions', s)
                       /\ CountFor(new, s) = 1
                  ELSE /\ HasKey(active_positions', s)
                       /\ Get(active_positions', s) = pos
                       /\ CountFor(new, s) = 0 ]_vars

C3_Witness ==
    /\ last.op = "monitor"
    /\ \E s \in DOMAIN last.prices, t \in DOMAIN last.prices :
         /\ last.prices[s] # None /\ ~ HasKey(active_positions, s)
         /\ last.prices[t] # None /\ HasKey(active_positions, t)

\* C4: a second exit_trade for an instrument whose position has been closed
\* appends nothing, every ClosedTrade matches its own previously opened
\* position, and there are never more ClosedTrades than positions opened.
C4_CloseOnceAndOneToOne ==
    LET trades == AllTrades(trade_history)
        st0 == [ap |-> active_positions, th |-> trade_history]
    IN  /\ Len(trades) <= Len(opened)
        /\ \E f \in [1 .. Len(trades) -> 1 .. Len(opened)] :
             /\ \A i, j \in 1 .. Len(trades) : f[i] = f[j] => i = j
             /\ \A i \in 1 .. Len(trades) :
                  /\ trades[i].symbol = opened[f[i]].symbol
                  /\ trades[i].signal = opened[f[i]].signal
                  /\ trades[i].qty = opened[f[i]].qty
                  /\ trades[i].entry_price = opened[f[i]].entry_price
        /\ \A s \in Symbols, p \in PolledPrices :
             LET st1 == exit_trade(st0, s, p, clock)
             IN  /\ exit_trade(st1, s, p, clock) = st1
                 /\ ~ HasKey(active_positions, s) => st1 = st0

C4_Witness ==
    /\ Len(opened) = 2
    /\ Len(AllTrades(trade_history)) = 2
    /\ active_positions = << >>

\* C5: evaluating an instrument opens a BUY position only when the estimate
\* is > 0 and the sentiment Bullish, a SELL position only when the estimate
\* is < 0 and the sentiment Bearish; in every other case (no estimate
\* included) the open positions are unchanged.
C5_OpensOnlyOnAgreement ==
    [][ last'.op = "eval" =>
          LET s == last'.sym
              est == last'.pnl
              long == est # None /\ est[1] > 0 /\ last'.sentiment = "Bullish"
              short == est # None /\ est[1] < 0 /\ last'.sentiment = "Bearish"
              openedNow == Len(opened') > Len(opened)
          IN  /\ openedNow =>
                   /\ HasKey(active_positions', s)
                   /\ Get(active_positions', s).signal = "BUY" => long
                   /\ Get(active_positions', s).signal = "SELL" => short
              /\ ~ (long \/ short) =>
                   /\ active_positions' = active_positions
                   /\ ~ openedNow
              /\ \A t \in Symbols \ {s} :
                   /\ HasKey(active_positions', t) = HasKey(active_positions, t)
                   /\ HasKey(active_positions, t) =>
                        Get(active_positions', t) = Get(active_positions, t) ]_vars

C5_Witness ==
    /\ last.op = "eval"
    /\ last.pnl = Some(-50)
    /\ last.sentiment = "Bearish"
    /\ HasKey(active_positions, last.sym)
    /\ Get(active_positions, last.sym) = opened[Len(opened)]
    /\ Get(active_positions, last.sym).signal = "SELL"

\* C6: place_trade either leaves the positions unchanged or inserts a
\* position sized from an available atr > 0 with
\* qty = floor(CAPITAL * RISK_PER_TRADE / (1.5 * atr)) >= 1; no position in
\* the ledger has qty < 1.
C6_NoUndersizedOrder ==
    [][ last'.op = "eval" =>
          /\ \/ (active_positions' = active_positions /\ opened' = opened)
             \/ /\ last'.atr # None
                /\ last'.atr[1] > 0
                /\ HasKey(active_positions', last'.sym)
                /\ LET q == Get(active_positions', last'.sym).qty
                       a == last'.atr[1]
                   IN  /\ q >= 1
                       /\ 300 * q * a <= 2 * CAPITAL * RISK_PER_TRADE_PCT
                       /\ 2 * CAPITAL * RISK_PER_TRADE_PCT < 300 * (q + 1) * a
          /\ \A i \in 1 .. Len(active_positions') :
               active_positions'[i].qty >= 1 ]_vars

C6_Witness ==
    /\ last.op = "eval"
    /\ last.atr = Some(4)
    /\ last.close # None
    /\ HasKey(active_positions, last.sym)
    /\ Get(active_positions, last.sym).qty = 166

C8_ReportIdempotent ==
    [][ last'.op = "report" =>
          /\ active_positions' = active_positions
          /\ trade_history' = trade_history
          /\ SaveDailyReport(files', trade_history', Today') = files'
          /\ files'[Today'].exists =>
               Len(files'[Today'].rows) = Len(AllTrades(trade_history')) ]_vars

C8_Witness ==
    /\ last.op = "report"
    /\ files[Today].exists
    /\ Len(files[Today].rows) = 2

\* C9: a position whose price is unavailable stays open unchanged with no
\* ClosedTrade, and every other position open at the start of the same
\* cycle whose stop is breached at its own price is still closed.
C9_MissingPriceSkipsOnlyThatPosition ==
    [][ last'.op = "monitor" =>
          LET new == NewTrades(trade_history, trade_history')
          IN  \A s \in Keys(active_positions) :
                last'.prices[s] = None =>
                  /\ HasKey(active_positions', s)
                  /\ Get(active_positions', s) = Get(active_positions, s)
                  /\ CountFor(new, s) = 0
                  /\ \A t \in Keys(active_positions) \ {s} :
                       LET pos == Get(active_positions, t)
                           p == last'.prices[t]
                       IN  (/\ p # None
                            /\ \/ (pos.signal = "BUY" /\ p[1] <= pos.stop_loss)
                               \/ (pos.signal = "SELL" /\ p[1] >= pos.stop_loss))
                           => /\ ~ HasKey(active_positions', t)
                              /\ CountFor(new, t) = 1 ]_vars

C9_Witness ==
    /\ last.op = "monitor"
    /\ Len(active_positions) = 1
    /\ last.prices[active_positions[1].symbol] = None
    /\ \E t \in DOMAIN last.prices :
         /\ last.prices[t] # None
         /\ ~ HasKey(active_positions, t)
         /\ opened[2].symbol = t

\* C10: every ClosedTrade in the trade history has pnl < 0.
C10_EveryClosedTradeLoses ==
    \A i \in 1 .. Len(AllTrades(trade_history)) :
      AllTrades(trade_history)[i].pnl < 0

C10_Witness ==
    LET trades == AllTrades(trade_history)
    IN  \E i, j \in 1 .. Len(trades) :
          /\ trades[i].signal = "BUY"
          /\ trades[j].signal = "SELL"
          /\ trades[j].exit_price = 110

====
